---- MODULE Spec2Model ----
(***************************************************************************)
(* Client-side session and request pipeline of react-spa-for-xano:         *)
(* the authToken cookie (lib/cookies.js), the axios client with its        *)
(* request/response interceptors (lib/axios.js), the React Query client    *)
(* and its retry policy (lib/queryClient.js), the auth service             *)
(* (services/authService.js) and the auth hooks (hooks/useAuth.js).        *)
(*                                                                         *)
(* JavaScript runs one handler at a time, so every timer callback,         *)
(* response handler and promise continuation chain is one atomic action.   *)
(***************************************************************************)
EXTENDS Integers, Sequences, FiniteSets, TLC

\* ------------------------------------------------------------------ bounds

\* Requests of httpClient in flight at once, and 401 responses handled off the
\* login page within one document.
MaxInFlight == 2
\* Largest attempt index handed to the retryDelay functions.
MaxAttemptIndex == 6
\* Largest number of consecutive failures the backend answers with.
MaxFailures == 5

\* Calls of the current-user queryFn and writes of its cache entry in one run.
MaxDispatches == 4

\* --------------------------------------------------------------- constants

Absent == "absent"                    \* getCookie's null
NoToken == "no-token"                 \* a response body without a token
NoStatus == 0                         \* error.response undefined (network failure, timeout)
None == "none"                        \* undefined query data

Tokens == {"tokA", "tokB"}
Emails == {"user@test.com", ""}
Passwords == {"123456", "letmein"}
Paths == {"/login", "/", "/profile"}
Endpoints == {"/auth/register", "/auth/forgot-password", "/auth/reset-password"}
Statuses == {200, 401, 403, 500, NoStatus}
ErrorStatuses == {NoStatus, 400, 401, 403, 404, 429, 499, 500, 503}

\* ------------------------------------------------------------- lib/config.js

\* An environment variable is undefined ({}) or holds a string, written as the
\* sequence of its characters.
DefaultBaseUrl == <<"/", "a", "p", "i">>
DefaultTimeout == 10000

BaseUrlTexts == {<<>>, <<"/", "v", "1">>}
TimeoutTexts == {<<>>, <<"0">>, <<"a", "b">>, <<"3", "0", "s">>, <<"5", "0", "0", "0">>}

\* import.meta.env of a build
BuildEnvs ==
  [PROD : BOOLEAN,
   VITE_API_BASE_URL : {{}} \cup {{t} : t \in BaseUrlTexts},
   VITE_API_TIMEOUT : {{}} \cup {{t} : t \in TimeoutTexts}]

\* import.meta.env[key] ?? defaultValue: only undefined gives way to the default
getEnv(env, key, defaultValue) == IF env[key] = {} THEN defaultValue ELSE env[key]

DigitValue(c) ==
  CASE c = "0" -> 0 [] c = "1" -> 1 [] c = "2" -> 2 [] c = "3" -> 3 [] c = "4" -> 4
    [] c = "5" -> 5 [] c = "6" -> 6 [] c = "7" -> 7 [] c = "8" -> 8 [] c = "9" -> 9
    [] OTHER -> -1

\* the value of the leading digits of text read after `read` digits worth acc
RECURSIVE ParseDigits(_, _, _)
ParseDigits(text, read, acc) ==
  IF text = <<>> \/ DigitValue(Head(text)) < 0
    THEN IF read = 0 THEN {} ELSE {acc}
    ELSE ParseDigits(Tail(text), read + 1, 10 * acc + DigitValue(Head(text)))

\* parseInt(text, 10): {} is NaN
parseInt(text) == ParseDigits(text, 0, 0)

getNumberEnv(env, key, defaultValue) ==
  LET value == getEnv(env, key, {})
  IN  IF value = {} THEN defaultValue
      ELSE LET parsed == parseInt(CHOOSE t \in value : TRUE)
           IN  IF parsed = {} THEN defaultValue ELSE CHOOSE n \in parsed : TRUE

\* the config object (appConfig in lib/axios.js): isProduction and api
appConfig(env) ==
  [isProduction |-> env.PROD,
   api |-> [baseUrl |-> CHOOSE t \in getEnv(env, "VITE_API_BASE_URL", {DefaultBaseUrl}) :
                          TRUE,
            timeout |-> getNumberEnv(env, "VITE_API_TIMEOUT", DefaultTimeout)]]

Required == {"VITE_API_BASE_URL"}

\* !getEnv(key): undefined and the empty string are falsy
Falsy(value) == value = {} \/ value = {<<>>}

\* validateConfig(): what it writes to the console and whether it throws
validateConfig(env) ==
  LET missing == {key \in Required : Falsy(getEnv(env, key, {}))}
  IN  [missing |-> missing,
       console |-> IF missing = {} THEN <<>>
                   ELSE IF appConfig(env).isProduction THEN <<"error">>
                   ELSE <<"error", "warn">>,
       threw |-> missing # {} /\ appConfig(env).isProduction]

\* ------------------------------------------------------------ lib/cookies.js

\* encodeURIComponent / decodeURIComponent
Encode(v) == [uri |-> v]
Decode(e) == e.uri

\* JavaScript truthiness of a token: null, undefined and "" are falsy
Truthy(t) == t # Absent /\ t # NoToken /\ t # ""

CookieMaxAge == 604800

\* The environment of the page: config.isProduction, whether the page was loaded
\* over https, and what the browser does with document.cookie: "available",
\* "blocked" (cookies switched off: assignments are ignored, reads are empty) or
\* "denied" (sandboxed or opaque origin: every access throws a SecurityError).
Environments ==
  [isProduction : BOOLEAN, secureOrigin : BOOLEAN,
   storage : {"available", "blocked", "denied"}]

\* the development server: http://localhost, cookies available
DevEnv == [isProduction |-> FALSE, secureOrigin |-> FALSE, storage |-> "available"]

COOKIE_CONFIG(env) ==
  [secure |-> env.isProduction, sameSite |-> "strict", path |-> "/",
   maxAge |-> CookieMaxAge]

\* { ...COOKIE_CONFIG, ...options }
Spread(base, options) ==
  [k \in DOMAIN base \cup DOMAIN options |->
     IF k \in DOMAIN options THEN options[k] ELSE base[k]]

\* the options deleteCookie passes to setCookie, and none
DeleteOptions_OwnPath == [maxAge |-> -1, path |-> "/login"]
DeleteOptions == [maxAge |-> -1, path |-> "/"]
NoOptions == [o \in {} |-> o]

\* the cookie string setCookie builds: an attribute is written when its config
\* value is truthy
CookieString(name, value, options, env) ==
  LET config == Spread(COOKIE_CONFIG(env), options)
  IN  [name |-> Encode(name),
       value |-> Encode(value),
       maxAge |-> IF config.maxAge # 0 THEN {config.maxAge} ELSE {},
       path |-> IF config.path # "" THEN {config.path} ELSE {},
       secure |-> config.secure,
       sameSite |-> IF config.sameSite # "" THEN {config.sameSite} ELSE {}]

\* document.cookie = <cookie string>: the browser ignores a Secure cookie on a page
\* not loaded over https; otherwise the stored cookie of that name and Path is
\* replaced, or only removed when Max-Age is not positive. A string without Path
\* takes the directory of the document, which is / for every route of the app.
DocumentCookieAssign(jar, c, env) ==
  LET path == IF c.path = {} THEN "/" ELSE CHOOSE x \in c.path : TRUE
      others == {e \in jar : ~(e.name = c.name /\ e.path = path)}
      expired == \E m \in c.maxAge : m <= 0
  IN  IF env.storage # "available" \/ (c.secure /\ ~env.secureOrigin)
        THEN jar
      ELSE IF expired THEN others
      ELSE others \cup {[name |-> c.name, value |-> c.value, path |-> path,
                         secure |-> c.secure, sameSite |-> c.sameSite]}

\* setCookie(name, value, options) on a page in environment env
setCookieIn(jar, name, value, options, env) ==
  DocumentCookieAssign(jar, CookieString(name, value, options, env), env)

\* deleteCookie(name) on a page in environment env
deleteCookieIn(jar, name, env) == setCookieIn(jar, name, "", DeleteOptions, env)

\* whether an access to document.cookie throws; setCookie and getCookie have no
\* try / catch around theirs
CookieAccessThrows(env) == env.storage = "denied"

setCookie(jar, name, value) == setCookieIn(jar, name, value, NoOptions, DevEnv)

\* every cookie the app stores has Path=/ and is visible on all its routes
getCookie(jar, name) ==
  IF \E e \in jar : e.name = Encode(name)
    THEN Decode((CHOOSE e \in jar : e.name = Encode(name)).value)
    ELSE Absent

deleteCookie(jar, name) == deleteCookieIn(jar, name, DevEnv)

\* -------------------------------------------------------------- lib/axios.js

RequestInterceptor_NoHeader(jar) == {}

\* the Authorization header the request interceptor puts on config.headers
RequestInterceptor(jar) ==
  LET token == getCookie(jar, "authToken")
  IN  IF Truthy(token)
        THEN {[name |-> "Authorization", scheme |-> "Bearer", token |-> token]}
        ELSE {}

Causes == {"response", "network", "timeout"}

\* the AxiosError the adapter rejects with: a response with a status outside 2xx, no
\* response at all, or the timeout of the request config running out
AxiosError(cause, endpoint, status) ==
  [message |-> CASE cause = "response" -> "Request failed with status code"
                 [] cause = "network" -> "Network Error"
                 [] cause = "timeout" -> "timeout exceeded",
   code |-> CASE cause = "response" -> "ERR_BAD_RESPONSE"
              [] cause = "network" -> "ERR_NETWORK"
              [] cause = "timeout" -> "ECONNABORTED",
   response |-> IF cause = "response"
                  THEN {[status |-> status, statusText |-> "status text",
                         data |-> "response body"]}
                  ELSE {},
   config |-> [url |-> endpoint, method |-> "post"]]

\* the structured error the response stage rejects with; response?.x is undefined
\* without a response
StructuredError(error) ==
  [message |-> error.message,
   status |-> IF error.response = {} THEN NoStatus
              ELSE (CHOOSE r \in error.response : TRUE).status,
   statusText |-> IF error.response = {} THEN "undefined"
                  ELSE (CHOOSE r \in error.response : TRUE).statusText,
   data |-> IF error.response = {} THEN "undefined"
            ELSE (CHOOSE r \in error.response : TRUE).data,
   url |-> error.config.url,
   method |-> error.config.method]


\* ------------------------------------------------------- lib/queryClient.js

RECURSIVE Pow2(_)
Pow2(n) == IF n = 0 THEN 1 ELSE 2 * Pow2(n - 1)

Min(a, b) == IF a < b THEN a ELSE b

Is4xx(status) == status >= 400 /\ status < 500

queriesRetry_Twice(failureCount, status) ==
  IF Is4xx(status) THEN FALSE ELSE failureCount < 2

queriesRetry(failureCount, status) ==
  IF Is4xx(status) THEN FALSE ELSE failureCount < 3

queriesRetryDelay_Uncapped(attemptIndex) == 1000 * Pow2(attemptIndex)

queriesRetryDelay(attemptIndex) == Min(1000 * Pow2(attemptIndex), 30000)

mutationsRetry(failureCount, status) ==
  IF Is4xx(status) THEN FALSE ELSE failureCount < 2

mutationsRetryDelay(attemptIndex) == Min(1000 * Pow2(attemptIndex), 10000)

ErrorStatus_TimeoutIs408(error) ==
  IF error.message = "timeout exceeded" THEN 408 ELSE error.status

\* error?.status, as the retry options read it
ErrorStatus(error) == error.status

\* ---------------------------------------------------------- hooks/useAuth.js

useUserRetry_Always(failureCount, status) == failureCount < 2

useLoginRetry_Default(failureCount, status) == mutationsRetry(failureCount, status)

\* retry: false of useLogin
useLoginRetry(failureCount, status) == FALSE

\* the retry override of useUser
useUserRetry(failureCount, status) ==
  IF status = 401 THEN FALSE ELSE failureCount < 2


\* ------------------------------------------------------------------- state

VARIABLES
  cookie,          \* document.cookie: the set of stored name=value entries
  pathname,        \* window.location.pathname
  userQuery,       \* cache entry of queryKeys.auth.user()
  observerEnabled, \* `enabled` of useUser as evaluated at the last render
  loginMut,        \* the useLogin mutation
  logoutMut,       \* the useLogout mutation
  updateMut,       \* the useUpdateProfile mutation: "pending" while its call is in flight
  inflight,        \* requests of httpClient that have not settled, per endpoint
  sent,            \* the request config the handler that ran last handed to the adapter
  received,        \* the status of the response the handler that ran last was given
  hrefAssigned,    \* assignments window.location.href = '/login' in this document
  navs,            \* navigate() calls made by the handler that ran last
  rKind,           \* retryer: whose options it runs with
  rStatus,         \* retryer: status of the error the failing attempts reject with
  rFailuresLeft,   \* retryer: failures the backend still answers with
  rFailureCount,   \* retryer: failureCount
  rAttempts,       \* retryer: calls of the query / mutation function so far
  rPhase,          \* retryer: "running" | "sleeping" | "resolved" | "rejected"
  rDelays,         \* retryer: the delays slept so far
  probe,           \* the retryDelay functions applied to one attempt index
  qEntry,          \* query cache: the Query of queryKeys.auth.user()
  qNet,            \* query cache: calls of the queryFn that have not settled
  qSeq,            \* query cache: calls of the queryFn and cache writes made so far
  qObs,            \* query cache: the components whose useQuery observer is subscribed
  qEnabled,        \* query cache: `enabled` the observers were last rendered with
  qSeen,           \* query cache: the data each observer's result holds
  qLast,           \* query cache: what the handler that ran last did
  cEnv,            \* cookie store: the environment of the page
  cJar,            \* cookie store: the cookies the browser holds for the page
  cLast,           \* cookie store: the call of lib/cookies.js that ran last
  cPrev,           \* cookie store: the call that ran before it
  bEnv,            \* start-up: import.meta.env of the build
  bPhase,          \* start-up: "unloaded" | "running" | "crashed" (the import threw)
  bConsole,        \* start-up: what validateConfig wrote to the console
  bConfig,         \* start-up: the config object, once lib/config.js is evaluated
  tPending,        \* client: the config of the request of httpClient in flight
  tError,          \* client: what the last failed request rejected with, and why
  tToasts,         \* client: who called toast.error for the last failed request
  tAsk             \* client: the retry option and retryDelay applied to that error

sessionVars ==
  <<cookie, pathname, userQuery, observerEnabled, loginMut, logoutMut, updateMut,
    inflight, sent, received, hrefAssigned, navs>>

retryVars ==
  <<rKind, rStatus, rFailuresLeft, rFailureCount, rAttempts, rPhase, rDelays, probe>>

cacheVars == <<qEntry, qNet, qSeq, qObs, qEnabled, qSeen, qLast>>

jarVars == <<cEnv, cJar, cLast, cPrev>>

clientVars == <<bEnv, bPhase, bConsole, bConfig, tPending, tError, tToasts, tAsk>>

vars == <<sessionVars, retryVars, cacheVars, jarVars, clientVars>>

\* ------------------------------------------------------------ cookie store
\* lib/cookies.js on its own: calls of setCookie, deleteCookie and getCookie with
\* any name and value, on a page in any environment.

CookieNames == {"authToken", "theme"}
CookieValues == Tokens \cup {""}

NoCall == [op |-> "none", name |-> "", was |-> Absent, written |-> {},
           threw |-> FALSE, got |-> {}]

CookieIdle ==
  /\ cEnv = DevEnv
  /\ cJar = {}
  /\ cLast = NoCall
  /\ cPrev = NoCall

CookieInit ==
  /\ cEnv \in Environments
  /\ cJar = {}
  /\ cLast = NoCall
  /\ cPrev = NoCall

\* setCookie(name, value): the string is built, then assigned to document.cookie;
\* a throwing assignment propagates to the caller
CookieSet(name, value) ==
  /\ cJar' = setCookieIn(cJar, name, value, NoOptions, cEnv)
  /\ cLast' = [op |-> "set", name |-> name, was |-> getCookie(cJar, name),
               written |-> {CookieString(name, value, NoOptions, cEnv)},
               threw |-> CookieAccessThrows(cEnv), got |-> {}]
  /\ cPrev' = cLast
  /\ UNCHANGED <<cEnv, sessionVars, retryVars, cacheVars, clientVars>>

\* deleteCookie(name)
CookieDelete(name) ==
  /\ cJar' = deleteCookieIn(cJar, name, cEnv)
  /\ cLast' = [op |-> "delete", name |-> name, was |-> getCookie(cJar, name),
               written |-> {CookieString(name, "", DeleteOptions, cEnv)},
               threw |-> CookieAccessThrows(cEnv), got |-> {}]
  /\ cPrev' = cLast
  /\ UNCHANGED <<cEnv, sessionVars, retryVars, cacheVars, clientVars>>

\* getCookie(name): document is defined in a browser, so the guard of line 46 is
\* passed and document.cookie is read
CookieGet(name) ==
  /\ cLast' = [op |-> "get", name |-> name, was |-> getCookie(cJar, name),
               written |-> {}, threw |-> CookieAccessThrows(cEnv),
               got |-> IF CookieAccessThrows(cEnv) THEN {}
                       ELSE {getCookie(cJar, name)}]
  /\ cPrev' = cLast
  /\ UNCHANGED <<cEnv, cJar, sessionVars, retryVars, cacheVars, clientVars>>


\* a query without data is stale (dataUpdatedAt = 0)
EmptyQuery == [data |-> None, status |-> "pending", stale |-> TRUE, fetching |-> FALSE]

IdleMutation == [status |-> "idle", error |-> ""]

\* authService.isAuthenticated
authService_isAuthenticated == Truthy(getCookie(cookie, "authToken"))

useAuthStatus_TokenOnly == authService_isAuthenticated

\* useAuthStatus().isAuthenticated
useAuthStatus_isAuthenticated == authService_isAuthenticated /\ userQuery.data # None

\* useAuthStatus().isLoading (useQuery: isFetching && isPending)
useAuthStatus_isLoading == userQuery.fetching /\ userQuery.status = "pending"

\* queryClient.setQueryData(queryKeys.auth.user(), user): an in-flight fetch goes on
setQueryData(q, user) ==
  [data |-> user, status |-> "success", stale |-> FALSE, fetching |-> q.fetching]

\* queryClient.invalidateQueries({queryKey}): marks the entry invalidated and
\* refetches it when an enabled observer is mounted
invalidateQueries(q, enabled) ==
  [q EXCEPT !.stale = TRUE, !.fetching = q.fetching \/ enabled]

\* queryClient.clear(): every query is removed and its fetch cancelled silently
queryClientClear(q) == EmptyQuery

SessionInit ==
  /\ cookie \in {{}} \cup {setCookie({}, "authToken", t) : t \in Tokens}
  /\ pathname \in {"/login", "/"}
  /\ pathname = "/" => authService_isAuthenticated
  /\ observerEnabled = authService_isAuthenticated
  /\ userQuery = IF authService_isAuthenticated
                   THEN [EmptyQuery EXCEPT !.fetching = TRUE]
                   ELSE EmptyQuery
  /\ loginMut = IdleMutation
  /\ logoutMut = "idle"
  /\ updateMut = "idle"
  /\ inflight = [e \in Endpoints |-> 0]
  /\ sent = {}
  /\ received = {}
  /\ hrefAssigned = 0
  /\ navs = <<>>


\* ------------------------------------------------------------ rendering

\* A render of the components that call useUser (PublicRoute, ProtectedRoute,
\* Layout, Dashboard): `enabled` is read from the cookie, and an enabled observer of
\* an entry without data fetches at once.
RenderQuery(q, enabled) ==
  IF enabled /\ q.data = None /\ ~q.fetching THEN [q EXCEPT !.fetching = TRUE] ELSE q

PublicRoute_NoRedirect(isLoading, isAuthenticated) ==
  IF isLoading THEN "spinner" ELSE "children"

\* what ProtectedRoute renders: the spinner, <Navigate to="/login" replace /> or its
\* children
ProtectedRoute(isLoading, isAuthenticated) ==
  IF isLoading THEN "spinner"
  ELSE IF ~isAuthenticated THEN "/login"
  ELSE "children"

\* what PublicRoute renders: the spinner, <Navigate to="/" replace /> or its children
PublicRoute(isLoading, isAuthenticated) ==
  IF isLoading THEN "spinner"
  ELSE IF isAuthenticated THEN "/"
  ELSE "children"

\* The location the route guards leave: /login is wrapped in PublicRoute, every other
\* path in ProtectedRoute, and both read useAuthStatus.
GuardedPath(path, q, token) ==
  LET isLoading == q.fetching /\ q.status = "pending"
      isAuthenticated == Truthy(token) /\ q.data # None
      rendered == IF path = "/login" THEN PublicRoute(isLoading, isAuthenticated)
                                     ELSE ProtectedRoute(isLoading, isAuthenticated)
  IN  IF rendered \in {"spinner", "children"} THEN path ELSE rendered

\* the handler that ran left entry q and location path, and the components render
Render(q, path) ==
  LET token == getCookie(cookie', "authToken")
  IN  /\ observerEnabled' = Truthy(token)
      /\ userQuery' = RenderQuery(q, Truthy(token))
      /\ pathname' = GuardedPath(path, RenderQuery(q, Truthy(token)), token)

\* A document starts: the in-memory cache, the mutations and the pending requests of
\* the previous document are gone, the cookie stays.
NewDocument(path) ==
  /\ UNCHANGED cookie
  /\ Render(EmptyQuery, path)
  /\ loginMut' = IdleMutation
  /\ logoutMut' = "idle"
  /\ updateMut' = "idle"
  /\ inflight' = [e \in Endpoints |-> 0]
  /\ sent' = {}
  /\ received' = {}
  /\ hrefAssigned' = 0
  /\ navs' = <<>>
  /\ UNCHANGED <<retryVars, cacheVars, jarVars, clientVars>>

\* the navigation started by window.location.href = '/login' commits
NavigationCommit ==
  /\ hrefAssigned > 0
  /\ NewDocument("/login")

\* window.location.reload()
BrowserReload == NewDocument(pathname)

\* ProtectedRoute shows its children: at its last render useAuthStatus was neither
\* loading nor unauthenticated, so the entry held user data
ProtectedChildrenShown == pathname # "/login" /\ userQuery.data # None

\* a <Link> of the Layout is followed
ClickLink(path) ==
  /\ ProtectedChildrenShown
  /\ path \in {"/", "/profile"}
  /\ path # pathname
  /\ UNCHANGED cookie
  /\ Render(userQuery, path)
  /\ navs' = <<>>
  /\ sent' = {}
  /\ received' = {}
  /\ UNCHANGED <<loginMut, logoutMut, updateMut, inflight,
                 hrefAssigned, retryVars, cacheVars, jarVars, clientVars>>

\* ------------------------------------------------------- the user query

\* whether a refetch trigger makes the observer of useUser fetch
ShouldFetch(q, enabled) == enabled /\ ~q.fetching /\ q.stale

\* a refetch trigger (window focus, reconnect, a mounting observer, invalidation)
\* reaches an enabled observer of a stale entry
FetchUserStart ==
  /\ ShouldFetch(userQuery, observerEnabled)
  /\ UNCHANGED cookie
  /\ Render([userQuery EXCEPT !.fetching = TRUE], pathname)
  /\ navs' = <<>>
  /\ sent' = {}
  /\ received' = {}
  /\ UNCHANGED <<loginMut, logoutMut, updateMut, inflight,
                 hrefAssigned, retryVars, cacheVars, jarVars, clientVars>>

\* authService.getCurrentUser resolves with the dummy user
FetchUserResolve ==
  /\ userQuery.fetching
  /\ UNCHANGED cookie
  /\ Render([data |-> "meUser", status |-> "success", stale |-> FALSE,
             fetching |-> FALSE], pathname)
  /\ navs' = <<>>
  /\ sent' = {}
  /\ received' = {}
  /\ UNCHANGED <<loginMut, logoutMut, updateMut, inflight,
                 hrefAssigned, retryVars, cacheVars, jarVars, clientVars>>

\* staleTime (5 minutes) passes since the entry was written
StaleTimeElapses ==
  /\ userQuery.data # None
  /\ ~userQuery.stale
  /\ userQuery' = [userQuery EXCEPT !.stale = TRUE]
  /\ navs' = <<>>
  /\ sent' = {}
  /\ received' = {}
  /\ UNCHANGED <<cookie, pathname, observerEnabled, loginMut, logoutMut, updateMut,
                 inflight, hrefAssigned, retryVars, cacheVars, jarVars, clientVars>>


\* ------------------------------------------------------------------ login

\* new Error(message)
JsError(message) == [name |-> "Error", message |-> message, stack |-> "stack"]

login_StoresTokenFirst(jar, email, password, now) ==
  IF email = "" \/ password = ""
    THEN [ok |-> FALSE, message |-> "Email and password are required",
          thrown |-> {JsError("Email and password are required")},
          token |-> NoToken, user |-> None, jar |-> setCookie(jar, "authToken", now)]
  ELSE IF email # "user@test.com" \/ password # "123456"
    THEN [ok |-> FALSE, message |-> "Invalid email or password",
          thrown |-> {JsError("Invalid email or password")},
          token |-> NoToken, user |-> None, jar |-> setCookie(jar, "authToken", now)]
  ELSE [ok |-> TRUE, message |-> "", thrown |-> {}, token |-> now,
        user |-> "loginUser", jar |-> setCookie(jar, "authToken", now)]

\* authService.login(email, password), called when `now` is Date.now(): what the
\* call settles with, and the cookie jar it leaves
login(jar, email, password, now) ==
  IF email = "" \/ password = ""
    THEN [ok |-> FALSE, message |-> "Email and password are required",
          thrown |-> {JsError("Email and password are required")},
          token |-> NoToken, user |-> None, jar |-> jar]
  ELSE IF email # "user@test.com" \/ password # "123456"
    THEN [ok |-> FALSE, message |-> "Invalid email or password",
          thrown |-> {JsError("Invalid email or password")},
          token |-> NoToken, user |-> None, jar |-> jar]
  ELSE [ok |-> TRUE, message |-> "", thrown |-> {}, token |-> now,
        user |-> "loginUser",
        jar |-> IF Truthy(now) THEN setCookie(jar, "authToken", now) ELSE jar]

useLogin_onSuccess_Invalidates(q, user) ==
  invalidateQueries(setQueryData(q, user), TRUE)

\* useLogin's onSuccess on the cache entry
useLogin_onSuccess(q, user) == setQueryData(q, user)

\* loginMutation.mutate({email, password}) on the Login page
LoginStart ==
  /\ pathname = "/login"
  /\ ~useAuthStatus_isLoading
  /\ ~useAuthStatus_isAuthenticated
  /\ loginMut.status # "pending"
  /\ loginMut' = [status |-> "pending", error |-> ""]
  /\ navs' = <<>>
  /\ sent' = {}
  /\ received' = {}
  /\ UNCHANGED <<cookie, pathname, userQuery, observerEnabled, logoutMut, updateMut,
                 inflight, hrefAssigned, retryVars, cacheVars, jarVars, clientVars>>

\* The login call settles and the mutation runs onSuccess or onError (retry: false).
\* Nothing reads the credentials handed to mutate() before the call settles, so they
\* are drawn here.
LoginSettle(email, password, now) ==
  /\ loginMut.status = "pending"
  /\ LET r == login(cookie, email, password, now)
     IN  /\ cookie' = r.jar
         /\ IF r.ok
              THEN /\ loginMut' = [status |-> "success", error |-> ""]
                   /\ Render(useLogin_onSuccess(userQuery, r.user), "/")
                   /\ navs' = <<"/">>
              ELSE /\ loginMut' = [status |-> "error", error |-> r.message]
                   /\ navs' = <<>>
                   /\ UNCHANGED <<userQuery, observerEnabled, pathname>>
  /\ sent' = {}
  /\ received' = {}
  /\ UNCHANGED <<logoutMut, updateMut, inflight, hrefAssigned, retryVars, cacheVars, jarVars, clientVars>>

\* ----------------------------------------------------------------- logout

authService_logout_NoFinally(jar, tryRejects) ==
  [rejected |-> tryRejects,
   jar |-> IF tryRejects THEN jar ELSE deleteCookie(jar, "authToken")]

\* authService.logout(): the catch swallows a rejection of the awaited call, the
\* finally deletes the cookie
authService_logout(jar, tryRejects) ==
  [rejected |-> FALSE, jar |-> deleteCookie(jar, "authToken")]

\* useLogout's onSuccess and onError both run queryClient.clear()
useLogout_onSettled(q) == queryClientClear(q)

\* logout() of useManualLogout (Layout) or logoutMutation.mutate() (UserInfo)
LogoutStart ==
  /\ ProtectedChildrenShown
  /\ logoutMut # "pending"
  /\ logoutMut' = "pending"
  /\ UNCHANGED cookie
  /\ Render(userQuery, pathname)
  /\ navs' = <<>>
  /\ sent' = {}
  /\ received' = {}
  /\ UNCHANGED <<loginMut, updateMut, inflight, hrefAssigned, retryVars, cacheVars, jarVars, clientVars>>

LogoutSettle(tryRejects) ==
  /\ logoutMut = "pending"
  /\ LET r == authService_logout(cookie, tryRejects)
     IN  /\ cookie' = r.jar
         /\ logoutMut' = IF r.rejected THEN "error" ELSE "success"
  /\ Render(useLogout_onSettled(userQuery), "/login")
  /\ navs' = <<"/login">>
  /\ sent' = {}
  /\ received' = {}
  /\ UNCHANGED <<loginMut, updateMut, inflight, hrefAssigned,
                 retryVars, cacheVars, jarVars, clientVars>>

\* authService.clearAuth()
ClearAuth ==
  /\ cookie' = deleteCookie(cookie, "authToken")
  /\ navs' = <<>>
  /\ sent' = {}
  /\ received' = {}
  /\ UNCHANGED <<pathname, userQuery, observerEnabled, loginMut, logoutMut, updateMut,
                 inflight, hrefAssigned, retryVars, cacheVars, jarVars, clientVars>>

\* --------------------------------------------------------- profile update

\* updateProfileMutation.mutate(profileData) on the UserInfo page
UpdateProfileStart ==
  /\ pathname = "/profile"
  /\ ProtectedChildrenShown
  /\ updateMut # "pending"
  /\ updateMut' = "pending"
  /\ navs' = <<>>
  /\ sent' = {}
  /\ received' = {}
  /\ UNCHANGED <<cookie, pathname, userQuery, observerEnabled, loginMut, logoutMut,
                 inflight, hrefAssigned, retryVars, cacheVars, jarVars, clientVars>>

\* authService.updateProfile resolves; onSuccess writes the entry and invalidates it
UpdateProfileSettle ==
  /\ updateMut = "pending"
  /\ updateMut' = "idle"
  /\ UNCHANGED cookie
  /\ Render(invalidateQueries(setQueryData(userQuery, "updatedUser"), observerEnabled),
            pathname)
  /\ navs' = <<>>
  /\ sent' = {}
  /\ received' = {}
  /\ UNCHANGED <<loginMut, logoutMut, inflight,
                 hrefAssigned, retryVars, cacheVars, jarVars, clientVars>>

\* ------------------------------------------------- requests of httpClient

\* the request stage: the config it hands on, given the cookie jar it reads
Request(endpoint, jar) ==
  [endpoint |-> endpoint, headers |-> RequestInterceptor(jar)]

\* requests in flight, over all endpoints
InFlight == inflight["/auth/register"] + inflight["/auth/forgot-password"]
            + inflight["/auth/reset-password"]

ResponseErrorInterceptor_NoPathCheck(jar, path, status) ==
  IF status = 401
    THEN [jar |-> deleteCookie(jar, "authToken"), href |-> 1]
    ELSE [jar |-> jar, href |-> 0]

ResponseErrorInterceptor_SkipsOnLogin(jar, path, status) ==
  IF status = 401 /\ path # "/login"
    THEN [jar |-> deleteCookie(jar, "authToken"), href |-> 1]
    ELSE [jar |-> jar, href |-> 0]

ResponseErrorInterceptor_Any4xx(jar, path, status) ==
  IF Is4xx(status)
    THEN [jar |-> deleteCookie(jar, "authToken"),
          href |-> IF path # "/login" THEN 1 ELSE 0]
    ELSE [jar |-> jar, href |-> 0]

\* the error handler of the response stage: the cookie jar it leaves and the number
\* of assignments to window.location.href it makes
ResponseErrorInterceptor(jar, path, status) ==
  IF status = 401
    THEN [jar |-> deleteCookie(jar, "authToken"),
          href |-> IF path # "/login" THEN 1 ELSE 0]
    ELSE [jar |-> jar, href |-> 0]

\* what the error handler of the response stage rejects with: the structured error
\* built from the axios error of a request to `endpoint`; without a response its
\* status, statusText and data are undefined
ResponseRejection(endpoint, status) ==
  StructuredError(AxiosError(IF status = NoStatus THEN "network" ELSE "response",
                             endpoint, status))

\* authService.register / requestPasswordReset / resetPassword call api.post, for
\* the first time or again after a retry delay of the mutation
ApiDispatch(endpoint) ==
  /\ hrefAssigned + InFlight < MaxInFlight
  /\ inflight' = [inflight EXCEPT ![endpoint] = @ + 1]
  /\ sent' = {Request(endpoint, cookie)}
  /\ received' = {}
  /\ navs' = <<>>
  /\ UNCHANGED <<cookie, pathname, userQuery, observerEnabled, loginMut, logoutMut,
                 updateMut, hrefAssigned, retryVars, cacheVars, jarVars, clientVars>>

\* a 2xx response: register stores the token, and the hook's onSuccess runs
ApiRespondSuccess(endpoint, bodyToken) ==
  /\ inflight[endpoint] > 0
  /\ bodyToken # NoToken => endpoint = "/auth/register"
  /\ inflight' = [inflight EXCEPT ![endpoint] = @ - 1]
  /\ cookie' = IF endpoint = "/auth/register" /\ Truthy(bodyToken)
                 THEN setCookie(cookie, "authToken", bodyToken)
                 ELSE cookie
  /\ Render(IF endpoint = "/auth/register"
              THEN setQueryData(userQuery, "registeredUser")
              ELSE userQuery,
            CASE endpoint = "/auth/register" -> "/"
              [] endpoint = "/auth/reset-password" -> "/login"
              [] OTHER -> pathname)
  /\ navs' = CASE endpoint = "/auth/register" -> <<"/">>
               [] endpoint = "/auth/reset-password" -> <<"/login">>
               [] OTHER -> <<>>
  /\ sent' = {}
  /\ received' = {200}
  /\ UNCHANGED <<loginMut, logoutMut, updateMut, hrefAssigned, retryVars, cacheVars, jarVars, clientVars>>

\* an error response or no response: the response stage runs and rejects with the
\* structured error; a retry of the mutation is a later ApiDispatch
ApiRespondError(endpoint, status) ==
  /\ inflight[endpoint] > 0
  /\ status # 200
  /\ LET e == ResponseErrorInterceptor(cookie, pathname, status)
     IN  /\ cookie' = e.jar
         /\ hrefAssigned' = hrefAssigned + e.href
  /\ inflight' = [inflight EXCEPT ![endpoint] = @ - 1]
  /\ navs' = <<>>
  /\ sent' = {}
  /\ received' = {status}
  /\ UNCHANGED <<pathname, userQuery, observerEnabled, loginMut, logoutMut, updateMut,
                 retryVars, cacheVars, jarVars, clientVars>>

\* --------------------------------------------------------------- retryer

\* The retryer of @tanstack/react-query runs the query or mutation function; when it
\* rejects it asks retry(failureCount, error) and retryDelay(failureCount, error),
\* and either rejects with the error or increments failureCount, sleeps the delay
\* and runs the function again.

Kinds == {"query", "mutation", "userQuery", "login"}

\* options.retry of each kind
RetryOption(kind, failureCount, status) ==
  CASE kind = "query" -> queriesRetry(failureCount, status)
    [] kind = "mutation" -> mutationsRetry(failureCount, status)
    [] kind = "userQuery" -> useUserRetry(failureCount, status)
    [] kind = "login" -> useLoginRetry(failureCount, status)

\* options.retryDelay of each kind: useUser and useLogin set none of their own
RetryDelayOption(kind, attemptIndex) ==
  CASE kind \in {"query", "userQuery"} -> queriesRetryDelay(attemptIndex)
    [] kind \in {"mutation", "login"} -> mutationsRetryDelay(attemptIndex)

RetryIdle ==
  /\ rKind = "query"
  /\ rStatus = NoStatus
  /\ rFailuresLeft = 0
  /\ rFailureCount = 0
  /\ rAttempts = 0
  /\ rPhase = "idle"
  /\ rDelays = <<>>
  /\ probe = <<>>

RetryInit ==
  /\ rKind \in Kinds
  /\ rStatus \in ErrorStatuses
  /\ rFailuresLeft \in 0..MaxFailures
  /\ rFailureCount = 0
  /\ rAttempts = 0
  /\ rPhase = "idle"
  /\ rDelays = <<>>
  /\ probe = <<>>

\* the function is called for the first time
RetryerStart ==
  /\ rPhase = "idle"
  /\ rPhase' = "running"
  /\ rAttempts' = 1
  /\ UNCHANGED <<rKind, rStatus, rFailuresLeft, rFailureCount, rDelays, probe,
                 sessionVars, cacheVars, jarVars, clientVars>>

\* the function rejects with an error of status rStatus
RetryerAttemptFails ==
  /\ rPhase = "running"
  /\ rFailuresLeft > 0
  /\ rFailuresLeft' = rFailuresLeft - 1
  /\ IF RetryOption(rKind, rFailureCount, rStatus)
       THEN /\ rDelays' = Append(rDelays, RetryDelayOption(rKind, rFailureCount))
            /\ rFailureCount' = rFailureCount + 1
            /\ rPhase' = "sleeping"
       ELSE /\ rPhase' = "rejected"
            /\ UNCHANGED <<rDelays, rFailureCount>>
  /\ UNCHANGED <<rKind, rStatus, rAttempts, probe, sessionVars, cacheVars, jarVars, clientVars>>

\* the function resolves
RetryerAttemptSucceeds ==
  /\ rPhase = "running"
  /\ rFailuresLeft = 0
  /\ rPhase' = "resolved"
  /\ UNCHANGED <<rKind, rStatus, rFailuresLeft, rFailureCount, rAttempts, rDelays,
                 probe, sessionVars, cacheVars, jarVars, clientVars>>

\* the delay is over: the function is called again
RetryerSleepOver ==
  /\ rPhase = "sleeping"
  /\ rPhase' = "running"
  /\ rAttempts' = rAttempts + 1
  /\ UNCHANGED <<rKind, rStatus, rFailuresLeft, rFailureCount, rDelays, probe,
                 sessionVars, cacheVars, jarVars, clientVars>>

\* both retryDelay functions applied to attempt index i
ProbeRetryDelay(i) ==
  /\ probe' = <<i, queriesRetryDelay(i), mutationsRetryDelay(i)>>
  /\ UNCHANGED <<rKind, rStatus, rFailuresLeft, rFailureCount, rAttempts, rPhase,
                 rDelays, sessionVars, cacheVars, jarVars, clientVars>>

\* ----------------------------------------------------------- query cache

\* The QueryCache of @tanstack/react-query holds one Query per key. Every component
\* that calls useUser / useAuthStatus subscribes an observer to the Query of
\* queryKeys.auth.user(). A call of the queryFn and a cache write are stamped with
\* the order in which they were made; the entry's data carries the stamp of the call
\* or write it came from (0: undefined).

Observers == {"ProtectedRoute", "Layout", "Dashboard"}

\* stale: the Query's isStale() (no data, invalidated, or older than staleTime);
\* aged: older than staleTime (no data: dataUpdatedAt = 0);
\* live: the calls whose result the Query will apply (not cancelled)
EmptyEntry == [data |-> 0, stale |-> TRUE, aged |-> TRUE, live |-> {}]

Query_fetch_NoDedup(e, id, cancelRefetch) ==
  [entry |-> [e EXCEPT !.live = @ \cup {id}], called |-> TRUE]

\* Query.fetch: while a fetch is in flight it is reused, unless the entry has data
\* and the caller asks for cancelRefetch, which cancels it silently and calls the
\* queryFn again
Query_fetch(e, id, cancelRefetch) ==
  IF e.live # {}
    THEN IF e.data # 0 /\ cancelRefetch
           THEN [entry |-> [e EXCEPT !.live = {id}], called |-> TRUE]
           ELSE [entry |-> e, called |-> FALSE]
    ELSE [entry |-> [e EXCEPT !.live = {id}], called |-> TRUE]

NoFetch(e) == [entry |-> e, called |-> FALSE]

ObserverShouldFetch_Always(e, enabled) == enabled

\* an enabled observer fetches on mount, on window focus and when its options
\* change if the entry has no data, is invalidated or is older than staleTime
ObserverShouldFetch(e, enabled) == enabled /\ (e.data = 0 \/ e.stale)

\* queryClient.setQueryData: the write is fresh; a fetch in flight is not cancelled
Cache_setQueryData(e, stamp) ==
  [e EXCEPT !.data = stamp, !.stale = FALSE, !.aged = FALSE]

Cache_invalidateQueries_MarkOnly(e, id, active) == NoFetch([e EXCEPT !.stale = TRUE])

\* queryClient.invalidateQueries: the entry is marked invalidated, and refetched with
\* cancelRefetch when an enabled observer is subscribed
Cache_invalidateQueries(e, id, active) ==
  IF active
    THEN Query_fetch([e EXCEPT !.stale = TRUE], id, TRUE)
    ELSE NoFetch([e EXCEPT !.stale = TRUE])

\* the queryFn call `id` resolves: the Query takes the result if the call is live
Query_applyResult(e, id) ==
  IF id \in e.live
    THEN [e EXCEPT !.data = id, !.stale = FALSE, !.aged = FALSE, !.live = @ \ {id}]
    ELSE e

CacheIdle ==
  /\ qEntry = EmptyEntry
  /\ qNet = {}
  /\ qSeq = 0
  /\ qObs = {}
  /\ qEnabled = FALSE
  /\ qSeen = [o \in Observers |-> 0]
  /\ qLast = [op |-> "none", calls |-> 0]

CacheInit ==
  /\ qEntry = EmptyEntry
  /\ qNet = {}
  /\ qSeq = 0
  /\ qObs = {}
  /\ qEnabled \in BOOLEAN
  /\ qSeen = [o \in Observers |-> 0]
  /\ qLast = [op |-> "none", calls |-> 0]

\* The handler `op` left r = [entry, called] after `writes` cache writes: a made call
\* is in flight under the next stamp, and the subscribed observers are notified of
\* the entry.
CacheStep(op, r, observers, writes) ==
  /\ qEntry' = r.entry
  /\ qNet' = IF r.called THEN qNet \cup {qSeq + writes + 1} ELSE qNet
  /\ qSeq' = qSeq + writes + (IF r.called THEN 1 ELSE 0)
  /\ qObs' = observers
  /\ qSeen' = [o \in Observers |-> IF o \in observers THEN r.entry.data ELSE 0]
  /\ qLast' = [op |-> op, calls |-> IF r.called THEN 1 ELSE 0]

\* what an observer does when it mounts, regains focus or has its options changed
ObserverFetch(e, enabled, id) ==
  IF ObserverShouldFetch(e, enabled) THEN Query_fetch(e, id, FALSE) ELSE NoFetch(e)

\* a component that calls useUser / useAuthStatus mounts (refetchOnMount: true)
ObserverMount(o) ==
  /\ o \notin qObs
  /\ qSeq < MaxDispatches
  /\ CacheStep("mount", ObserverFetch(qEntry, qEnabled, qSeq + 1), qObs \cup {o}, 0)
  /\ UNCHANGED <<qEnabled, sessionVars, retryVars, jarVars, clientVars>>

\* it unmounts: the queryFn takes no abort signal, so a fetch in flight goes on
ObserverUnmount(o) ==
  /\ o \in qObs
  /\ CacheStep("unmount", NoFetch(qEntry), qObs \ {o}, 0)
  /\ UNCHANGED <<qEnabled, sessionVars, retryVars, jarVars, clientVars>>

\* the window regains focus or the network reconnects (refetchOnWindowFocus,
\* refetchOnReconnect: true)
WindowFocus ==
  /\ qObs # {}
  /\ qSeq < MaxDispatches
  /\ CacheStep("focus", ObserverFetch(qEntry, qEnabled, qSeq + 1), qObs, 0)
  /\ UNCHANGED <<qEnabled, sessionVars, retryVars, jarVars, clientVars>>

\* a render after the cookie was deleted evaluates enabled:
\* authService.isAuthenticated() to false
RenderDisabled ==
  /\ qEnabled
  /\ qEnabled' = FALSE
  /\ CacheStep("render", NoFetch(qEntry), qObs, 0)
  /\ UNCHANGED <<sessionVars, retryVars, jarVars, clientVars>>

\* the call `id` of authService.getCurrentUser resolves
CacheFetchResolve(id) ==
  /\ id \in qNet
  /\ qNet' = qNet \ {id}
  /\ qEntry' = Query_applyResult(qEntry, id)
  /\ qSeen' = [o \in Observers |->
                 IF o \in qObs THEN Query_applyResult(qEntry, id).data ELSE 0]
  /\ qLast' = [op |-> "resolve", calls |-> 0]
  /\ UNCHANGED <<qSeq, qObs, qEnabled, sessionVars, retryVars, jarVars, clientVars>>

\* staleTime passes since the entry was written
CacheStaleTimeElapses ==
  /\ qEntry.data # 0
  /\ ~qEntry.aged
  /\ CacheStep("staleTime", NoFetch([qEntry EXCEPT !.stale = TRUE, !.aged = TRUE]),
               qObs, 0)
  /\ UNCHANGED <<qEnabled, sessionVars, retryVars, jarVars, clientVars>>

\* login / register resolve and onSuccess of useLogin / useRegister runs
\* setQueryData(queryKeys.auth.user(), data.user); when the token was stored, the
\* render that follows evaluates enabled to true
CacheSeed(tokenStored) ==
  /\ qSeq < MaxDispatches
  /\ qEnabled' = (qEnabled \/ tokenStored)
  /\ CacheStep("seed",
               IF qObs # {}
                 THEN ObserverFetch(Cache_setQueryData(qEntry, qSeq + 1),
                                    qEnabled \/ tokenStored, qSeq + 2)
                 ELSE NoFetch(Cache_setQueryData(qEntry, qSeq + 1)),
               qObs, 1)
  /\ UNCHANGED <<sessionVars, retryVars, jarVars, clientVars>>

\* onSuccess of useUpdateProfile: setQueryData, then invalidateQueries of the key
CacheUpdateProfileSuccess ==
  /\ qSeq + 1 < MaxDispatches
  /\ CacheStep("update",
               Cache_invalidateQueries(Cache_setQueryData(qEntry, qSeq + 1), qSeq + 2,
                                       qObs # {} /\ qEnabled),
               qObs, 1)
  /\ UNCHANGED <<qEnabled, sessionVars, retryVars, jarVars, clientVars>>

\* onSuccess / onError of useLogout: queryClient.clear() removes the Query and
\* cancels its fetch silently; observers that stay mounted build it anew
CacheClear ==
  /\ qSeq < MaxDispatches
  /\ CacheStep("clear",
               IF qObs # {} THEN ObserverFetch(EmptyEntry, qEnabled, qSeq + 1)
                            ELSE NoFetch(EmptyEntry),
               qObs, 0)
  /\ UNCHANGED <<qEnabled, sessionVars, retryVars, jarVars, clientVars>>

\* ------------------------------------------------- start-up and httpClient
\* lib/config.js is evaluated when the app is imported: the config object is built
\* and validateConfig() runs. httpClient is created from config.api, and every
\* request goes through it.

\* what toast.error calls the error handler of the response stage makes
InterceptorToasts(status) ==
  CASE status = 401 -> <<"interceptor">>
    [] status = 403 -> <<"interceptor">>
    [] status = 404 -> <<"interceptor">>
    [] status = 429 -> <<"interceptor">>
    [] status >= 500 -> <<"interceptor">>
    [] status >= 400 -> <<"interceptor">>
    [] OTHER -> <<>>

\* The keys under which setupGlobalErrorHandler registers its onError defaults, and
\* the keys of the app: the queries use queryKeys.auth / queryKeys.users, and no
\* useMutation of hooks/useAuth.js passes a mutationKey.
GlobalHandlerKey == [mutation |-> <<"mutation">>, query |-> <<"query">>]
AppKeys ==
  [mutation |-> {},
   query |-> {<<"auth", "user">>, <<"auth", "profile">>, <<"users", "list">>}]
Callers == {"mutation", "query"}

\* defaults registered under a key apply to the queries and mutations whose own key
\* starts with it
DefaultsApply(defaultsKey, key) ==
  Len(key) >= Len(defaultsKey) /\ SubSeq(key, 1, Len(defaultsKey)) = defaultsKey

\* what toast.error calls the global onError makes for a failed query or mutation
\* of the given key ({}: no key)
GlobalHandlerToasts(caller, key, error) ==
  IF /\ \E k \in key : DefaultsApply(GlobalHandlerKey[caller], k)
     /\ ErrorStatus(error) = NoStatus
    THEN <<"global">>
    ELSE <<>>

ClientIdle ==
  /\ bEnv = [PROD |-> FALSE, VITE_API_BASE_URL |-> {}, VITE_API_TIMEOUT |-> {}]
  /\ bPhase = "unloaded"
  /\ bConsole = <<>>
  /\ bConfig = {}
  /\ tPending = {}
  /\ tError = {}
  /\ tToasts = <<>>
  /\ tAsk = {}

ClientInit ==
  /\ bEnv \in BuildEnvs
  /\ bPhase = "unloaded"
  /\ bConsole = <<>>
  /\ bConfig = {}
  /\ tPending = {}
  /\ tError = {}
  /\ tToasts = <<>>
  /\ tAsk = {}

\* the import of lib/config.js: config is built, then validateConfig() runs; when it
\* throws, the import fails and the app does not start
ModuleLoad ==
  /\ bPhase = "unloaded"
  /\ bConfig' = {appConfig(bEnv)}
  /\ bConsole' = validateConfig(bEnv).console
  /\ bPhase' = IF validateConfig(bEnv).threw THEN "crashed" ELSE "running"
  /\ UNCHANGED <<bEnv, tPending, tError, tToasts, tAsk,
                 sessionVars, retryVars, cacheVars, jarVars>>

\* a request of httpClient: the instance defaults (baseURL, timeout) are merged into
\* its config; no caller passes a config of its own
ClientDispatch(endpoint) ==
  /\ bPhase = "running"
  /\ tPending = {}
  /\ tPending' = {[url |-> endpoint,
                   baseURL |-> (CHOOSE c \in bConfig : TRUE).api.baseUrl,
                   timeout |-> (CHOOSE c \in bConfig : TRUE).api.timeout]}
  /\ tError' = {}
  /\ tToasts' = <<>>
  /\ tAsk' = {}
  /\ UNCHANGED <<bEnv, bPhase, bConsole, bConfig,
                 sessionVars, retryVars, cacheVars, jarVars>>

\* the request fails: with a response of status outside 2xx, without a response, or
\* because its timeout ran out (a timeout of 0 never does). The response stage runs
\* and rejects with the structured error; then the onError defaults that apply to
\* the calling query or mutation run.
ClientRespondError(cause, status, caller) ==
  /\ tPending # {}
  /\ (cause = "response") = (status # NoStatus)
  /\ cause = "timeout" => (CHOOSE r \in tPending : TRUE).timeout > 0
  /\ LET request == CHOOSE r \in tPending : TRUE
         error == StructuredError(AxiosError(cause, request.url, status))
     IN  /\ tError' = {[cause |-> cause, error |-> error]}
         /\ tToasts' = InterceptorToasts(status)
                         \o GlobalHandlerToasts(caller, AppKeys[caller], error)
  /\ tPending' = {}
  /\ tAsk' = {}
  /\ UNCHANGED <<bEnv, bPhase, bConsole, bConfig,
                 sessionVars, retryVars, cacheVars, jarVars>>

\* the retryer asks retry(failureCount, error) and retryDelay(failureCount, error)
\* of the options of `kind` about the error
ClientRetryAsk(kind, failureCount) ==
  /\ tError # {}
  /\ LET e == CHOOSE x \in tError : TRUE
     IN  tAsk' = {[kind |-> kind, failureCount |-> failureCount, cause |-> e.cause,
                   retry |-> RetryOption(kind, failureCount, ErrorStatus(e.error)),
                   delay |-> RetryDelayOption(kind, failureCount)]}
  /\ UNCHANGED <<bEnv, bPhase, bConsole, bConfig, tPending, tError, tToasts,
                 sessionVars, retryVars, cacheVars, jarVars>>

\* ---------------------------------------------------------- specifications

Init == SessionInit /\ RetryIdle /\ CacheIdle /\ CookieIdle /\ ClientIdle

Next ==
  \/ NavigationCommit
  \/ BrowserReload
  \/ \E path \in Paths : ClickLink(path)
  \/ FetchUserStart
  \/ FetchUserResolve
  \/ StaleTimeElapses
  \/ LoginStart
  \/ \E email \in Emails, password \in Passwords, now \in Tokens :
       LoginSettle(email, password, now)
  \/ LogoutStart
  \/ \E tryRejects \in BOOLEAN : LogoutSettle(tryRejects)
  \/ ClearAuth
  \/ UpdateProfileStart
  \/ UpdateProfileSettle
  \/ \E endpoint \in Endpoints : ApiDispatch(endpoint)
  \/ \E endpoint \in Endpoints, bodyToken \in Tokens \cup {NoToken} :
       ApiRespondSuccess(endpoint, bodyToken)
  \/ \E endpoint \in Endpoints, status \in Statuses : ApiRespondError(endpoint, status)

Spec == Init /\ [][Next]_vars

SessionIdle ==
  /\ cookie = {}
  /\ pathname = "/login"
  /\ userQuery = EmptyQuery
  /\ observerEnabled = FALSE
  /\ loginMut = IdleMutation
  /\ logoutMut = "idle"
  /\ updateMut = "idle"
  /\ inflight = [e \in Endpoints |-> 0]
  /\ sent = {}
  /\ received = {}
  /\ hrefAssigned = 0
  /\ navs = <<>>

RetryerInit == SessionIdle /\ RetryInit /\ CacheIdle /\ CookieIdle /\ ClientIdle

RetryerNext ==
  \/ RetryerStart
  \/ RetryerAttemptFails
  \/ RetryerAttemptSucceeds
  \/ RetryerSleepOver
  \/ \E i \in 0..MaxAttemptIndex : ProbeRetryDelay(i)

\* A started call settles and a timer fires: the retryer's own steps are weakly fair.
RetryerStep ==
  RetryerStart \/ RetryerAttemptFails \/ RetryerAttemptSucceeds \/ RetryerSleepOver

RetrySpec == RetryerInit /\ [][RetryerNext]_vars /\ WF_vars(RetryerStep)


CacheSpecInit == SessionIdle /\ RetryIdle /\ CacheInit /\ CookieIdle /\ ClientIdle

CacheNext ==
  \/ \E o \in Observers : ObserverMount(o)
  \/ \E o \in Observers : ObserverUnmount(o)
  \/ WindowFocus
  \/ RenderDisabled
  \/ \E id \in 1..MaxDispatches : CacheFetchResolve(id)
  \/ CacheStaleTimeElapses
  \/ \E tokenStored \in BOOLEAN : CacheSeed(tokenStored)
  \/ CacheUpdateProfileSuccess
  \/ CacheClear

\* a call of the queryFn settles (getCurrentUser resolves after its 500 ms timer)
CacheSpec ==
  CacheSpecInit /\ [][CacheNext]_vars
    /\ WF_vars(\E id \in 1..MaxDispatches : CacheFetchResolve(id))

CookieSpecInit == SessionIdle /\ RetryIdle /\ CacheIdle /\ CookieInit /\ ClientIdle

CookieNext ==
  \/ \E name \in CookieNames, value \in CookieValues : CookieSet(name, value)
  \/ \E name \in CookieNames : CookieDelete(name)
  \/ \E name \in CookieNames : CookieGet(name)

CookieSpec == CookieSpecInit /\ [][CookieNext]_vars

ClientSpecInit == SessionIdle /\ RetryIdle /\ CacheIdle /\ CookieIdle /\ ClientInit

ClientNext ==
  \/ ModuleLoad
  \/ \E endpoint \in Endpoints : ClientDispatch(endpoint)
  \/ \E cause \in Causes, status \in ErrorStatuses, caller \in Callers :
       ClientRespondError(cause, status, caller)
  \/ \E kind \in Kinds, failureCount \in 0..MaxFailures :
       ClientRetryAsk(kind, failureCount)

ClientSpec == ClientSpecInit /\ [][ClientNext]_vars


\* ------------------------------------------------------------------ claims

Token == getCookie(cookie, "authToken")

\* C1: however many responses with status 401 are handled in a document, the
\* response stage signals the forced navigation to /login once in total, not once
\* per 401 response.
C1_OneForcedNavigation == hrefAssigned <= 1

\* C2: a request leaving the request stage carries Authorization: Bearer <token>
\* when the authToken cookie holds a token at that moment, carries no Authorization
\* header when it holds none, and is in flight either way.
C2_BearerIffToken ==
  \A r \in sent :
    /\ inflight[r.endpoint] > 0
    /\ IF Truthy(Token)
         THEN r.headers = {[name |-> "Authorization", scheme |-> "Bearer",
                            token |-> Token]}
         ELSE \A h \in r.headers : h.name # "Authorization"

C2_Witness ==
  \E r \in sent : \E h \in r.headers : h.name = "Authorization" /\ h.token \in Tokens

\* C3 as stated: every isAuthenticated value the code exposes, the one of
\* authService as well as the one of useAuthStatus, is true only if the cookie holds a
\* token and the current-user entry holds successfully resolved user data.
C3_EveryIsAuthenticatedNeedsUser ==
  (authService_isAuthenticated \/ useAuthStatus_isAuthenticated)
    => (Truthy(Token) /\ userQuery.data # None /\ userQuery.status = "success")

\* C3 amended: the isAuthenticated value of useAuthStatus is true only if the cookie
\* holds a token and the current-user entry holds successfully resolved user data.
C3_HookNeedsTokenAndUser ==
  useAuthStatus_isAuthenticated
    => (Truthy(Token) /\ userQuery.data # None /\ userQuery.status = "success")

C3_Witness == useAuthStatus_isAuthenticated /\ userQuery.data = "meUser"

\* The session state the specification names, read off the values the hooks expose:
\* authenticated when useAuthStatus says so, authenticating while the login mutation
\* is pending, anonymous otherwise.
SessionState ==
  IF useAuthStatus_isAuthenticated THEN "authenticated"
  ELSE IF loginMut.status = "pending" THEN "authenticating"
  ELSE "anonymous"

Transition(from, to) == SessionState = from /\ SessionState' = to

LoginSucceeds == \E now \in Tokens : LoginSettle("user@test.com", "123456", now)

LoginFails ==
  \E email \in Emails, password \in Passwords, now \in Tokens :
    /\ ~(email = "user@test.com" /\ password = "123456")
    /\ LoginSettle(email, password, now)

Receives401 == \E endpoint \in Endpoints : ApiRespondError(endpoint, 401)

\* C4 as stated: the session state changes only from anonymous to authenticating,
\* from authenticating to authenticated or to anonymous, and from authenticated to
\* anonymous.
C4_OnlyStatedTransitions ==
  [][SessionState' # SessionState =>
       \/ Transition("anonymous", "authenticating")
       \/ Transition("authenticating", "authenticated")
       \/ Transition("authenticating", "anonymous")
       \/ Transition("authenticated", "anonymous")]_vars

RegisterSucceeds ==
  \E bodyToken \in Tokens \cup {NoToken} : ApiRespondSuccess("/auth/register", bodyToken)

LogoutSettles == \E tryRejects \in BOOLEAN : LogoutSettle(tryRejects)

\* C4 amended: the session state changes only along these transitions, each by one
\* of the operations named with it.
C4_SessionTransitions ==
  [][SessionState' # SessionState =>
       \/ /\ Transition("anonymous", "authenticating")
          /\ LoginStart
       \/ /\ Transition("authenticating", "authenticated")
          /\ LoginSucceeds \/ RegisterSucceeds
       \/ /\ Transition("authenticating", "anonymous")
          /\ LoginFails \/ NavigationCommit \/ BrowserReload
       \/ /\ Transition("anonymous", "authenticated")
          /\ FetchUserResolve \/ RegisterSucceeds
       \/ /\ Transition("authenticated", "anonymous")
          /\ LogoutSettles \/ Receives401 \/ ClearAuth \/ NavigationCommit
               \/ BrowserReload
       \/ /\ Transition("authenticated", "authenticating")
          /\ Receives401 \/ ClearAuth \/ LogoutSettles]_vars

C4_Witness ==
  /\ SessionState = "authenticated"
  /\ userQuery.data = "meUser"
  /\ loginMut.status = "idle"
  /\ logoutMut = "idle"

\* C5: a login call that is given missing or wrong credentials settles as an error
\* that carries a message, and leaves the cookie, the current-user entry and the
\* location as they were, with no navigation signaled.
C5_FailedLoginMutatesNothing ==
  [][\A email \in Emails, password \in Passwords, now \in Tokens :
       (LoginSettle(email, password, now)
          /\ ~(email = "user@test.com" /\ password = "123456"))
       => /\ loginMut'.status = "error"
          /\ loginMut'.error # ""
          /\ cookie' = cookie
          /\ userQuery' = userQuery
          /\ pathname' = pathname
          /\ hrefAssigned' = hrefAssigned
          /\ navs' = <<>>]_vars

C5_Witness == loginMut.status = "error" /\ loginMut.error # "" /\ cookie = {}

C7_LogoutAlwaysClears ==
  [][\A tryRejects \in BOOLEAN :
       LogoutSettle(tryRejects)
       => /\ getCookie(cookie', "authToken") = Absent
          /\ userQuery' = EmptyQuery
          /\ navs' = <<"/login">>
          /\ pathname' = "/login"
          /\ logoutMut' = "success"]_vars

C7_Witness ==
  /\ logoutMut = "success"
  /\ navs = <<"/login">>
  /\ Token = Absent
  /\ userQuery = EmptyQuery

Failures ==
  (IF rPhase = "resolved" THEN rAttempts - 1 ELSE rAttempts) + rFailuresLeft

Settled == rPhase \in {"resolved", "rejected"}

\* C9 as stated: with failures of status >= 500 or without status, the call settles
\* after min(max, failures + 1) attempts, max being 3 for queries and 2 for mutations.
C9_AttemptsAsStated ==
  (Settled /\ rKind \in {"query", "mutation"} /\ ~Is4xx(rStatus))
    => rAttempts = Min(IF rKind = "query" THEN 3 ELSE 2, Failures + 1)

\* the attempts the options of each kind allow: the first one and the retries
MaxAttempts(kind) ==
  CASE kind = "query" -> 4
    [] kind = "mutation" -> 3
    [] kind = "userQuery" -> 3
    [] kind = "login" -> 1

\* C9 amended: with failures of status >= 500 or without status, the call eventually
\* settles, after exactly min(max, failures + 1) attempts, max being 4 for queries
\* (3 retries), 3 for mutations (2 retries), 3 for the current-user query and 1 for
\* login.
C9_AttemptsFirstPlusRetries ==
  /\ []((Settled /\ ~Is4xx(rStatus)) => rAttempts = Min(MaxAttempts(rKind), Failures + 1))
  /\ <>Settled

C9_Witness ==
  /\ rPhase = "rejected"
  /\ rKind = "query"
  /\ rStatus = 500
  /\ rAttempts = 4

\* min(1000 * 2^i, cap), as the specification writes it
StatedDelay(i, cap) == IF 1000 * (2 ^ i) <= cap THEN 1000 * (2 ^ i) ELSE cap

StatedCap(kind) == IF kind \in {"query", "userQuery"} THEN 30000 ELSE 10000

\* C10: for every attempt index i the retry delay is min(1000 * 2^i, cap), cap being
\* 30000 for queries and 10000 for mutations; it never exceeds the cap, it does not
\* decrease with i, and the i-th delay the retryer sleeps is the one of index i - 1.
C10_BackoffDelay ==
  /\ probe # <<>> =>
       /\ probe[2] = StatedDelay(probe[1], 30000)
       /\ probe[3] = StatedDelay(probe[1], 10000)
       /\ probe[2] <= 30000
       /\ probe[3] <= 10000
       /\ probe[1] > 0 => /\ queriesRetryDelay(probe[1] - 1) <= probe[2]
                          /\ mutationsRetryDelay(probe[1] - 1) <= probe[3]
  /\ \A j \in 1..Len(rDelays) : rDelays[j] = StatedDelay(j - 1, StatedCap(rKind))

C10_Witness ==
  /\ probe # <<>>
  /\ probe[1] >= 5
  /\ probe[2] = 30000
  /\ probe[3] = 10000

\* C11: a query or mutation function that rejects with status 401 is not run again,
\* whichever retry option is in force (the defaults, the override of useUser,
\* retry: false of useLogin): the retryer never sleeps for a retry and rejects after
\* the one attempt.
C11_No401Retry ==
  rStatus = 401 =>
    /\ rAttempts <= 1
    /\ rPhase # "sleeping"
    /\ rDelays = <<>>
    /\ \A kind \in Kinds, failureCount \in 0..MaxFailures :
         ~RetryOption(kind, failureCount, 401)

C11_Witness ==
  /\ rStatus = 401
  /\ rKind = "userQuery"
  /\ rPhase = "rejected"
  /\ rAttempts = 1

\* C13: however many components subscribe to the current-user key, the Query has at
\* most one fetch whose result it will apply; a component that subscribes while that
\* fetch is in flight makes no call of the queryFn, one that subscribes to an entry
\* without data and without a fetch makes exactly one; and all subscribed observers
\* hold the same data, the entry's.
C13_OneFetchPerKey ==
  /\ [](/\ Cardinality(qEntry.live) <= 1
        /\ \A o \in qObs : qSeen[o] = qEntry.data)
  /\ [][\A o \in Observers :
          ObserverMount(o) =>
            /\ qEntry.live # {} => (qNet' = qNet /\ qEntry'.live = qEntry.live)
            /\ (qEntry.live = {} /\ qEntry.data = 0 /\ qEnabled)
                 => (qNet' = qNet \cup {qSeq + 1} /\ qEntry'.live = {qSeq + 1})]_vars

C13_Witness ==
  /\ qObs = Observers
  /\ qSeq = 1
  /\ qNet = {}
  /\ qEntry.data = 1
  /\ \A o \in Observers : qSeen[o] = 1

\* C14: when the profile update succeeds, the current-user entry it has just written
\* is invalidated although it is younger than staleTime: with an enabled observer
\* subscribed a fresh call of the queryFn is made at once, a fetch already in flight
\* being dropped for it; without one, the next enabled observer to read the entry
\* fetches.
C14_InvalidationRefetches ==
  [][CacheUpdateProfileSuccess =>
       /\ qEntry'.data = qSeq + 1
       /\ qEntry'.stale
       /\ ObserverShouldFetch(qEntry', TRUE)
       /\ (qObs # {} /\ qEnabled) =>
            /\ qEntry'.live = {qSeq + 2}
            /\ qNet' = qNet \cup {qSeq + 2}
            /\ qLast'.calls = 1]_vars

C14_Witness ==
  /\ qLast = [op |-> "update", calls |-> 1]
  /\ qEntry.data # 0
  /\ qEntry.stale
  /\ Cardinality(qNet) = 2

\* the fields of the structured error of the request pipeline
IsStructuredError(e) == {"message", "status", "data", "url", "method"} \subseteq DOMAIN e

\* C15: whatever a call of the request pipeline or of the auth service rejects with
\* is a structured error with message, status, data, url and method: a failed request
\* of httpClient as well as a failed login.
C15_EveryFailureStructured ==
  [][/\ \A endpoint \in Endpoints, status \in Statuses :
          ApiRespondError(endpoint, status)
            => IsStructuredError(ResponseRejection(endpoint, status))
     /\ \A email \in Emails, password \in Passwords, now \in Tokens :
          LoginSettle(email, password, now)
            => \A e \in login(cookie, email, password, now).thrown :
                 IsStructuredError(e)]_vars

\* the step takes the authToken credential out of the cookie jar
CredentialRemoved == Truthy(Token) /\ ~Truthy(getCookie(cookie', "authToken"))

\* the step assigns window.location.href = '/login'
ForcedNavigation == hrefAssigned' > hrefAssigned

\* C16 as stated: only the handling of a 401 by the response stage removes the
\* credential or forces navigation.
C16_Only401Clears ==
  [][(CredentialRemoved \/ ForcedNavigation) => Receives401]_vars

\* C16 amended: the credential is removed only by the handling of a 401 by the
\* response stage, by logout and by clearAuth; window.location.href = '/login' is
\* assigned only by the handling of a 401, and only off the login page.
C16_WhoClearsAndForces ==
  [][/\ CredentialRemoved => (Receives401 \/ LogoutSettles \/ ClearAuth)
     /\ ForcedNavigation => (Receives401 /\ pathname # "/login")]_vars

C16_Witness ==
  /\ received = {401}
  /\ Token = Absent
  /\ hrefAssigned = 1
  /\ userQuery.data # None
  /\ pathname # "/login"

\* C17: the login mutation calls authService.login once: whatever status the failure
\* carries (4xx, 5xx, none), the retryer does not sleep for a retry, and it rejects
\* after that attempt.
C17_LoginSingleAttempt ==
  rKind = "login" =>
    /\ rAttempts <= 1
    /\ rPhase # "sleeping"
    /\ rFailureCount = 0
    /\ (rAttempts = 1 /\ Failures > 0) => rPhase \in {"running", "rejected"}

C17_Witness ==
  /\ rKind = "login"
  /\ rStatus = 500
  /\ rPhase = "rejected"
  /\ rAttempts = 1
  /\ rFailuresLeft > 0

\* the Path, Secure and SameSite attributes of a cookie string
Scope(c) == <<c.path, c.secure, c.sameSite>>

C19_SetCookieNeverThrows == cLast.op = "set" => ~cLast.threw

\* C20: a response of the queryFn is applied to the entry only if it belongs to the
\* latest call dispatched for the key, and never in place of newer data: when the
\* call `id` resolves and changes the entry, no call dispatched after it is in
\* flight and the entry did not hold data stamped after it (by a later call or a
\* later setQueryData).
C20_StaleResponseDiscarded ==
  [][\A id \in 1..MaxDispatches :
       CacheFetchResolve(id) /\ qEntry' # qEntry =>
         /\ \A later \in qNet : later <= id
         /\ qEntry.data <= id]_vars

\* what the response stage rejects with when a request to url gets no response
NetworkFailure(url) == StructuredError(AxiosError("network", url, NoStatus))

\* C21: every request of httpClient carries the timeout of config.api, which is
\* 10000 ms when VITE_API_TIMEOUT is not set; and for every kind of query or
\* mutation and every failure count, the retry option and retryDelay answer for a
\* request that timed out what they answer for one that got no response.
C21_TimeoutLikeNetworkFailure ==
  /\ \A r \in tPending :
       /\ \A c \in bConfig : r.timeout = c.api.timeout
       /\ bEnv.VITE_API_TIMEOUT = {} => r.timeout = 10000
  /\ \A a \in tAsk : \A e \in tError :
       a.cause = "timeout" =>
         /\ a.retry = RetryOption(a.kind, a.failureCount,
                                  ErrorStatus(NetworkFailure(e.error.url)))
         /\ a.delay = RetryDelayOption(a.kind, a.failureCount)
         /\ e.error.status = NetworkFailure(e.error.url).status

\* a request sent with the default timeout timed out, and the defaults of the
\* queries answer that it is retried after two failures
C21_Witness ==
  /\ bEnv.VITE_API_TIMEOUT = {}
  /\ \E a \in tAsk :
       /\ a.cause = "timeout"
       /\ a.kind = "query"
       /\ a.failureCount = 2
       /\ a.retry
       /\ a.delay = 4000

\* a component subscribes, or the window regains focus / the network reconnects
RefetchTrigger == (\E o \in Observers : ObserverMount(o)) \/ WindowFocus

\* the step calls the queryFn
CallsQueryFn == qLast'.calls > 0 \/ qNet' # qNet

\* the subscribed observers are handed the data the entry held
ServedFromCache == \A o \in qObs' : qSeen'[o] = qEntry.data

\* C22 as stated: an entry with data younger than staleTime is served to a new
\* subscriber, and on window focus or reconnect, without a call of the queryFn.
C22_YoungServedWithoutFetch ==
  [][(RefetchTrigger /\ qEntry.data # 0 /\ ~qEntry.aged)
       => (~CallsQueryFn /\ ServedFromCache)]_vars

\* C22 amended: an entry with data that is younger than staleTime and has not been
\* invalidated since it was written is served to a new subscriber, and on window
\* focus or reconnect, without a call of the queryFn; an invalidated entry is
\* fetched again by an enabled observer however young it is.
C22_FreshServedWithoutFetch ==
  [][/\ (RefetchTrigger /\ qEntry.data # 0 /\ ~qEntry.stale)
          => (~CallsQueryFn /\ ServedFromCache)
     /\ (RefetchTrigger /\ qEntry.data # 0 /\ ~qEntry.aged /\ qEntry.stale
           /\ qEntry.live = {} /\ qEnabled)
          => CallsQueryFn]_vars

\* the window regained focus with two enabled observers on a fresh entry, and no
\* call was made
C22_Witness ==
  /\ qLast = [op |-> "focus", calls |-> 0]
  /\ qEnabled
  /\ Cardinality(qObs) >= 2
  /\ qEntry.data # 0
  /\ ~qEntry.stale
  /\ qNet = {}

\* C23: in demo mode a login call succeeds whatever email and password it is given
\* (the form lets no empty one through): it stores a token in the cookie and returns
\* a user, which seeds the entry.
C23_AnyCredentialsLogIn ==
  [][\A email \in Emails, password \in Passwords, now \in Tokens :
       (LoginSettle(email, password, now) /\ email # "" /\ password # "")
       => /\ login(cookie, email, password, now).ok
          /\ loginMut'.status = "success"
          /\ getCookie(cookie', "authToken") = now
          /\ userQuery'.data = "loginUser"]_vars

\* C24: when the response stage handles a 401 while the location is /login, the
\* credential is removed and window.location.href is not assigned; when the location
\* is any other, the credential is removed and window.location.href = '/login' is
\* assigned once.
C24_NoNavigationOnLogin ==
  [][Receives401 =>
       /\ getCookie(cookie', "authToken") = Absent
       /\ hrefAssigned' = hrefAssigned + (IF pathname = "/login" THEN 0 ELSE 1)
       /\ navs' = <<>>
       /\ pathname' = pathname]_vars

\* a 401 was handled on /login while the page was loading the user of a stored token
C24_Witness ==
  /\ received = {401}
  /\ pathname = "/login"
  /\ hrefAssigned = 0
  /\ Token = Absent
  /\ userQuery.fetching

\* C25: every failed request is notified exactly once: a failure that carries an HTTP
\* status by the response stage alone, a failure without status by the global error
\* handler alone.
C25_OneNotificationPerFailure ==
  \A e \in tError :
    tToasts = IF e.error.status # NoStatus THEN <<"interceptor">> ELSE <<"global">>

\* the base URL of the config object, once built
BaseUrl == (CHOOSE c \in bConfig : TRUE).api.baseUrl

\* C26: once lib/config.js is evaluated, the import has thrown if and only if the
\* build is a production build and VITE_API_BASE_URL is missing (what validateConfig
\* reports as missing: undefined or empty); in another build a missing variable
\* leaves a console error and a warning, and the app runs with the default base URL
\* /api.
C26_ThrowsIffProductionAndMissing ==
  bPhase # "unloaded" =>
    /\ bPhase = "crashed" <=> (bEnv.PROD /\ Falsy(bEnv.VITE_API_BASE_URL))
    /\ (~bEnv.PROD /\ Falsy(bEnv.VITE_API_BASE_URL)) =>
         /\ bConsole = <<"error", "warn">>
         /\ bPhase = "running"
         /\ BaseUrl = <<"/", "a", "p", "i">>

\* logout has settled and left the session ended: no credential, no user data
LoggedOut == logoutMut = "success" /\ Token = Absent /\ userQuery.data = None

\* C27: logout settles with the credential absent and the cache without current-user
\* data, and what was in flight when logout started does not undo it: from then on
\* the credential is stored and user data enters the cache only by a new login or
\* register, never by the late result of an earlier current-user fetch or profile
\* update.
C27_LogoutIsFinal ==
  [][/\ LogoutSettles => (Token' = Absent /\ userQuery'.data = None /\ ~userQuery'.fetching)
     /\ (LoggedOut /\ (userQuery'.data # None \/ Token' # Absent))
          => (LoginSucceeds \/ RegisterSucceeds)]_vars

\* C28: whenever the credential is absent and no login or register call is in
\* progress, the cache holds no current-user data.
C28_NoUserDataWithoutCredential ==
  (Token = Absent /\ loginMut.status # "pending" /\ inflight["/auth/register"] = 0)
    => userQuery.data = None

\* the step starts a call of the current-user queryFn
FetchDispatched == ~userQuery.fetching /\ userQuery'.fetching

\* C29: no fetch of the current user is dispatched while the credential is absent,
\* whatever triggers it (a render, focus, reconnect, a mounting observer or an
\* invalidation) and whatever ended the session before.
C29_NoFetchWithoutCredential ==
  [][FetchDispatched => Truthy(getCookie(cookie', "authToken"))]_vars

\* C30: whenever useAuthStatus is not loading, exactly one of the two route guards
\* redirects: ProtectedRoute redirects to /login exactly when PublicRoute renders its
\* children, and PublicRoute redirects to / exactly when ProtectedRoute renders its
\* children. So the location a guard redirects to is left alone by the guard found
\* there, a step that changes the location leaves a protected path only while
\* loading or authenticated, and ProtectedRoute renders its children only when
\* isAuthenticated is true.
C30_ExactlyOneGuardRedirects ==
  /\ [](LET l == useAuthStatus_isLoading
            a == useAuthStatus_isAuthenticated
        IN  /\ ~l => /\ ProtectedRoute(l, a) = "/login" <=> PublicRoute(l, a) = "children"
                     /\ PublicRoute(l, a) = "/" <=> ProtectedRoute(l, a) = "children"
                     /\ (ProtectedRoute(l, a) = "/login") # (PublicRoute(l, a) = "/")
            /\ ProtectedRoute(l, a) = "children" => a
            /\ \A path \in Paths :
                 GuardedPath(GuardedPath(path, userQuery, Token), userQuery, Token)
                   = GuardedPath(path, userQuery, Token))
  /\ [][(pathname' # pathname /\ pathname' # "/login")
          => (useAuthStatus_isLoading' \/ useAuthStatus_isAuthenticated')]_vars

\* the user of a stored token was loaded while the location was /login, and
\* PublicRoute redirected to /, where ProtectedRoute renders its children
C30_Witness ==
  /\ pathname = "/"
  /\ userQuery.data = "meUser"
  /\ loginMut.status = "idle"
  /\ ~useAuthStatus_isLoading
  /\ PublicRoute(useAuthStatus_isLoading, useAuthStatus_isAuthenticated) = "/"
  /\ ProtectedRoute(useAuthStatus_isLoading, useAuthStatus_isAuthenticated) = "children"


====
